---- MODULE Spec2Model ----
(***************************************************************************)
(* A model of the aragon-cli orchestration code:                           *)
(*   - the `run` command (src/src/commands/run.js): a Listr task list that *)
(*     compiles, connects to a chain, starts IPFS, deploys the framework   *)
(*     contracts, creates a DAO, publishes and installs the app and opens  *)
(*     the wrapper;                                                        *)
(*   - the local binary resolver getLocalBinary, exercised by              *)
(*     src/packages/aragon-cli/test/util.test.js;                          *)
(*   - the helpers fetchClient (src/unnamed/part_000) and ensureWeb3       *)
(*     (src/unnamed/part_001) and the `apps <dao>` command                 *)
(*     (src/unnamed/part_002).                                             *)
(* External operations (deployments, transactions, calls, subprocesses)    *)
(* are promises: an operation is launched by the task that owns it, stays  *)
(* in `inflight`, and settles later, successfully or not, in any order.    *)
(* Listr runs the tasks one after the other (no `concurrent` option is     *)
(* given), awaits the promise a task returns, and rejects run() with the   *)
(* first error a task throws.                                              *)
(***************************************************************************)
EXTENDS Integers, Sequences, FiniteSets, TLC

VARIABLES
    step,          \* the task the Listr runner is at, or "Done" / "Failed" / "Reported"
    phase,         \* the await point inside the task function ("ready": not called yet)
    started,       \* the tasks Listr has begun (skip or task function called), in order
    inflight,      \* external operations launched and not yet settled
    done,          \* external operations that settled successfully
    failed,        \* external operations that settled with an error
    ctx,           \* the Listr context object (the deployment context)
    calls,         \* every external call made so far, with the arguments it was given
    error,         \* the error run() rejected with (NoError while there is none)
    unhandled,     \* errors thrown inside promises nobody awaits
    timers,        \* setTimeout callbacks still pending
    opened,        \* URLs opn() was called with
    truffleConfig, \* the ENS address recorded in the truffle configuration file
    truffleWrites, \* number of writeTruffleConfig calls
    listening,     \* what isListening() answered: "none", "true", "false" or "throw"
    ipfs,          \* the IPFS daemon: "running" or "stopped"
    ipfsInstalled, \* whether an IPFS binary is installed
    wrapperDir,    \* whether <home>/.aragon/wrapper-<commit> exists on disk
    wrapperDisk,   \* what that directory holds: a finished clone, installed dependencies
    roles,         \* module.roles.length of the project manifest (arapp.json)
    manifest,      \* manifest.json: "missing", "nostart" (no start_url) or "ok"
    reported,      \* what the handler printed once run() resolved
    binName,       \* getLocalBinary: the executable name X
    binStart,      \* getLocalBinary: the start directory D (a sequence of segments)
    binFs,         \* the paths for which fs.existsSync answers true
    binDir,        \* the directory the upward walk is at
    binPc,         \* "walk", "found" or "notfound"
    binResult,     \* the path returned (NoPath until one is)
    binChecked,    \* the candidates handed to existsSync, in order
    fcPc,          \* fetchClient: "idle" (no call in progress) or "copy" (awaiting copy)
    fcVersion,     \* fetchClient: clientVersion of the latest call
    fcCtx,         \* fetchClient: the ctx object of the latest call
    fcDisk,        \* per version: what <home>/.aragon/client-<version> is on disk
    fcCopies,      \* per version: number of copies that completed without error
    fcCalls,       \* number of fetchClient calls made
    fcOutcome,     \* how the latest call ended: "none", "skipped", "copied" or "failed"
    w3Pc,          \* ensureWeb3: "idle", "called", "isListening", "returned" or "threw"
    w3Network,     \* ensureWeb3: the endpoint passed as `network`
    w3Status,      \* per endpoint: "listening", "not listening" or "unreachable"
    w3Ctx,         \* what the free identifier `ctx` is bound to: "unbound", or the
                   \* endpoint of ctx.web3
    w3Result,      \* ensureWeb3: the value returned
    w3Error,       \* ensureWeb3: the error thrown
    apPc,          \* apps: "idle", "called", "inspecting", "resolved", "rejected", "exited"
    apApm,         \* whether the free identifier `apm` is bound when the task runs
    apReachable,   \* whether the client library can reach the DAO
    apFetched,     \* the apps the client library fetches for the DAO
    apPending,     \* what the client library has still to deliver to the handler
    apCtx,         \* apps: the Listr context (apps, daoAddress)
    apSet,         \* apps: the properties of ctx that have been assigned
    apMessage,     \* apps: the reporter message printed
    apTable,       \* apps: the table printed
    apExit         \* apps: "none" or the status process.exit was called with

runVars == <<step, phase, started, inflight, done, failed, ctx, calls, error,
             unhandled, timers, opened, truffleConfig, truffleWrites, listening,
             ipfs, ipfsInstalled, wrapperDir, wrapperDisk, roles, manifest, reported>>

binVars == <<binName, binStart, binFs, binDir, binPc, binResult, binChecked>>

clientVars == <<fcPc, fcVersion, fcCtx, fcDisk, fcCopies, fcCalls, fcOutcome>>

web3Vars == <<w3Pc, w3Network, w3Status, w3Ctx, w3Result, w3Error>>

appsVars == <<apPc, apApm, apReachable, apFetched, apPending, apCtx, apSet, apMessage,
              apTable, apExit>>

toolVars == <<clientVars, web3Vars, appsVars>>

vars == <<runVars, binVars, toolVars>>

(***************************************************************************)
(* Bounds of the model.                                                    *)
(***************************************************************************)
MaxRoles == 2
MaxDepth == 4

(***************************************************************************)
(* Values.  A context value is a pair of strings, an operation a triple    *)
(* <<kind, name, index>> and an error message a 4-tuple <<text>> \o op, so *)
(* that any two values of one sort can be compared.                        *)
(***************************************************************************)
Undefined == <<"undefined", "">>
Addr(x) == <<"address of", x>>
Web3Client == <<"web3", "network.provider">>
Accounts == <<"accounts", "getAccounts()">>

NoOp == <<"", "", 0>>
Deploy(c) == <<"deploy", c, 0>>
Tx(name) == <<"send", name, 0>>
Call(name) == <<"call", name, 0>>
Proc(name) == <<"subprocess", name, 0>>
\* acl.methods.createPermission(...).send(...) of the i-th permission of a list
Perm(list, i) == <<"createPermission", list, i>>

NoError == <<"no error">> \o NoOp
\* The error an external operation rejects with: its own, original message.
Msg(op) == <<"failure of">> \o op
IpfsMissingError == <<"Running your app requires IPFS. Opening install instructions in your browser">> \o NoOp
NoPermissionsError == <<"You have no permissions defined in your arapp.json">> \o NoOp
InstallError == <<"Could not install dependencies">> \o NoOp
StartError == <<"Could not start wrapper">> \o NoOp

ANY_ENTITY == <<"0xffffffffffffffffffffffffffffffffffffffff", "">>
WRAPPER_PATH == <<"~/.aragon/wrapper-", "a21100bc14daaea72d79c6eb3ecaaf5877791e09">>
IpfsInstallUrl == <<"https://ipfs.io/docs/install", <<"", "">>>>
DaoUrl(dao) == <<"http://localhost:3000/#/", dao>>

apmBaseContracts == {"APMRegistry", "Repo", "ENSSubdomainRegistrar", "ENSFactory",
                     "Kernel", "ACL"}
ContractNames == apmBaseContracts \cup {"DAOFactory", "APMRegistryFactory", "AppCode"}

(***************************************************************************)
(* The task list, flattened: a task whose function returns a nested        *)
(* TaskList ('Deploy APM and ENS', 'Install app', 'Open DAO') runs that    *)
(* list's tasks in order as its own work.                                  *)
(***************************************************************************)
\* Faulty orders: the app is published before its code is deployed; the wrapper
\* is started before its dependencies are installed.
TaskOrderPublishFirst ==
    <<"Compile", "Connect", "StartIPFS",
      "DeployBase", "DeployDAOFactory", "DeployAPMFactory", "CreateAPM",
      "CreateDAO", "SetDAOPermissions", "Publish", "DeployAppCode",
      "DeployProxy", "SetPermissions",
      "DownloadWrapper", "NpmInstall", "StartWrapper", "OpenWrapper">>

TaskOrderStartFirst ==
    <<"Compile", "Connect", "StartIPFS",
      "DeployBase", "DeployDAOFactory", "DeployAPMFactory", "CreateAPM",
      "CreateDAO", "SetDAOPermissions", "DeployAppCode", "Publish",
      "DeployProxy", "SetPermissions",
      "DownloadWrapper", "StartWrapper", "NpmInstall", "OpenWrapper">>

TaskOrder == <<"Compile", "Connect", "StartIPFS",
               "DeployBase", "DeployDAOFactory", "DeployAPMFactory", "CreateAPM",
               "CreateDAO", "SetDAOPermissions", "DeployAppCode", "Publish",
               "DeployProxy", "SetPermissions",
               "DownloadWrapper", "NpmInstall", "StartWrapper", "OpenWrapper">>

TaskIndex(s) == CHOOSE i \in 1..Len(TaskOrder) : TaskOrder[i] = s

\* enabled: (ctx) => !ctx.wrapperAvailable, on 'Install wrapper dependencies with npm'
\* Faulty: 'npm install' has no enabled() condition.
TaskEnabledAlways(s, c) == TRUE

TaskEnabled(s, c) == s # "NpmInstall" \/ ~c.wrapperAvailable

RECURSIVE TaskFrom(_, _)
TaskFrom(i, c) ==
    IF i > Len(TaskOrder) THEN "Done"
    ELSE IF TaskEnabled(TaskOrder[i], c) THEN TaskOrder[i]
    ELSE TaskFrom(i + 1, c)

\* The task Listr runs after s, the context being c when s completes.
NextTask(s, c) == TaskFrom(TaskIndex(s) + 1, c)

(***************************************************************************)
(* The state when exports.handler calls tasks.run().                       *)
(***************************************************************************)
NoReport == [info |-> <<>>, warning |-> "none"]

EmptyCtx ==
    [web3 |-> Undefined, accounts |-> Undefined,
     contracts |-> [c \in ContractNames |-> Undefined],
     registryAddress |-> Undefined, ensAddress |-> Undefined,
     daoAddress |-> Undefined, aclAddress |-> Undefined, appAddress |-> Undefined,
     apm |-> Undefined, wrapperPath |-> Undefined, wrapperAvailable |-> FALSE]

RunInit ==
    /\ step = TaskOrder[1]
    /\ phase = "ready"
    /\ started = <<>>
    /\ inflight = {}
    /\ done = {}
    /\ failed = {}
    /\ ctx = EmptyCtx
    /\ calls = {}
    /\ error = NoError
    /\ unhandled = {}
    /\ timers = {}
    /\ opened = {}
    /\ truffleConfig = Undefined
    /\ truffleWrites = 0
    /\ listening = "none"
    /\ reported = NoReport
    \* the environment the command is run in
    /\ ipfs \in {"running", "stopped"}
    /\ ipfsInstalled \in BOOLEAN
    /\ wrapperDir \in BOOLEAN
    \* a directory present at the start holds a complete download
    /\ wrapperDisk = [cloned |-> wrapperDir, installed |-> wrapperDir]
    /\ roles \in 0..MaxRoles
    /\ manifest \in {"missing", "nostart", "ok"}

(***************************************************************************)
(* Promises and the Listr runner.                                          *)
(***************************************************************************)
\* What the runner leaves alone unless an action says otherwise.
quiet == <<unhandled, timers, opened, truffleConfig, truffleWrites, listening,
           ipfs, ipfsInstalled, wrapperDir, wrapperDisk, roles, manifest, reported>>

\* An external call, with the arguments it is given and the task that makes it.
CallOf(op, args) == [op |-> op, args |-> args, task |-> step]

\* Listr begins task s: it calls its skip function if it has one, else its
\* task function.
StartTask(s) == step = s /\ phase = "ready" /\ started' = Append(started, s)

\* The task function launches the calls cs (no operation settles).
Launch(cs) ==
    /\ inflight' = inflight \cup {c.op : c \in cs}
    /\ calls' = calls \cup cs
    /\ UNCHANGED <<done, failed>>

\* Operation op settles (ok: resolved, otherwise rejected) and its then-callback
\* launches the calls cs.
Settle(op, ok, cs) ==
    /\ op \in inflight
    /\ inflight' = (inflight \ {op}) \cup {c.op : c \in cs}
    /\ calls' = calls \cup cs
    /\ done' = IF ok THEN done \cup {op} ELSE done
    /\ failed' = IF ok THEN failed ELSE failed \cup {op}

\* The task stays pending at await point p.
Await(p) == step' = step /\ phase' = p /\ error' = error

\* The promise of the task resolves: Listr goes on to the next enabled task, or
\* run() resolves ("Done") after the last one.
Resolve(c) == step' = NextTask(step, c) /\ phase' = "ready" /\ error' = error

\* The task throws, or the promise it returned rejects, with message m: Listr
\* (exitOnError) starts no other task and run() rejects with that error.
Reject(m) == step' = "Failed" /\ phase' = "rejected" /\ error' = m

\* Faulty: resolves as soon as one promise has resolved (Promise.race).
PromiseAny(ops, resolved) == ops \cap resolved # {}

\* Promise.all(ps) resolves once every promise of ps has resolved.
PromiseAll(ops, resolved) == ops \subseteq resolved

(***************************************************************************)
(* 'Compile contracts'                                                     *)
(***************************************************************************)
CompileStart ==
    /\ StartTask("Compile")
    /\ Launch({CallOf(Proc("truffle compile"), <<>>)})
    /\ Await("truffle")
    /\ UNCHANGED <<ctx, quiet, binVars, toolVars>>

CompileSettle(ok) ==
    /\ step = "Compile" /\ phase = "truffle"
    /\ Settle(Proc("truffle compile"), ok, {})
    /\ IF ok THEN Resolve(ctx) ELSE Reject(Msg(Proc("truffle compile")))
    /\ UNCHANGED <<started, ctx, quiet, binVars, toolVars>>

(***************************************************************************)
(* 'Connect to the provided Ethereum network'                              *)
(***************************************************************************)
\* const getWeb3 = () => new Web3(network.provider)
getWeb3 == Web3Client

GetAccountsCall(web3) == CallOf(Call("getAccounts"), <<web3>>)

ConnectStart ==
    /\ StartTask("Connect")
    /\ ctx' = [ctx EXCEPT !.web3 = getWeb3]
    /\ Launch({CallOf(Call("isListening"), <<getWeb3>>)})
    /\ Await("isListening")
    /\ UNCHANGED <<quiet, binVars, toolVars>>

\* Whether the catch block (the devchain fallback) runs for answer r of
\* isListening(): `connected` is assigned and never read.
FallsBack(r) == r = "throw"

ConnectListening(r) ==
    /\ step = "Connect" /\ phase = "isListening"
    /\ listening' = r
    /\ IF FallsBack(r)
       THEN /\ Settle(Call("isListening"), r # "throw",
                      {CallOf(Call("devchain.task"), <<>>)})
            /\ Await("devchain")
       ELSE /\ Settle(Call("isListening"), r # "throw", {GetAccountsCall(ctx.web3)})
            /\ Await("getAccounts")
    /\ UNCHANGED <<started, ctx, unhandled, timers, opened, truffleConfig,
                   truffleWrites, ipfs, ipfsInstalled, wrapperDir, wrapperDisk, roles, manifest,
                   reported, binVars, toolVars>>

ConnectDevchain(ok) ==
    /\ step = "Connect" /\ phase = "devchain"
    /\ IF ok
       THEN /\ ctx' = [ctx EXCEPT !.web3 = getWeb3]
            /\ Settle(Call("devchain.task"), TRUE, {GetAccountsCall(getWeb3)})
            /\ Await("getAccounts")
       ELSE /\ ctx' = ctx
            /\ Settle(Call("devchain.task"), FALSE, {})
            /\ Reject(Msg(Call("devchain.task")))
    /\ UNCHANGED <<started, quiet, binVars, toolVars>>

ConnectAccounts(ok) ==
    /\ step = "Connect" /\ phase = "getAccounts"
    /\ Settle(Call("getAccounts"), ok, {})
    /\ ctx' = IF ok THEN [ctx EXCEPT !.accounts = Accounts] ELSE ctx
    /\ IF ok THEN Resolve(ctx') ELSE Reject(Msg(Call("getAccounts")))
    /\ UNCHANGED <<started, quiet, binVars, toolVars>>

(***************************************************************************)
(* 'Start IPFS'                                                            *)
(***************************************************************************)
\* skip: async () => { const running = await isIPFSRunning(); ... }
IpfsSkipStart ==
    /\ StartTask("StartIPFS")
    /\ Launch({CallOf(Call("isIPFSRunning"), <<>>)})
    /\ Await("isIPFSRunning")
    /\ UNCHANGED <<ctx, quiet, binVars, toolVars>>

\* Faulty: the skip function never reports a running daemon.
IpfsNeverSkipped == FALSE

\* skip: if (running) return 'IPFS daemon already running'
IpfsSkipped == ipfs = "running"

IpfsSkipSettle(ok) ==
    /\ step = "StartIPFS" /\ phase = "isIPFSRunning"
    /\ IF ~ok
       THEN /\ Settle(Call("isIPFSRunning"), FALSE, {})
            /\ Reject(Msg(Call("isIPFSRunning")))
       ELSE IF IpfsSkipped
       THEN \* 'IPFS daemon already running': the task is skipped
            /\ Settle(Call("isIPFSRunning"), TRUE, {})
            /\ Resolve(ctx)
       ELSE \* the task function is called and awaits isIPFSInstalled()
            /\ Settle(Call("isIPFSRunning"), TRUE, {CallOf(Call("isIPFSInstalled"), <<>>)})
            /\ Await("isIPFSInstalled")
    /\ UNCHANGED <<started, ctx, quiet, binVars, toolVars>>

IpfsInstalledSettle(ok) ==
    /\ step = "StartIPFS" /\ phase = "isIPFSInstalled"
    /\ IF ~ok
       THEN /\ Settle(Call("isIPFSInstalled"), FALSE, {})
            /\ Reject(Msg(Call("isIPFSInstalled")))
            /\ UNCHANGED timers
       ELSE IF ~ipfsInstalled
       THEN /\ Settle(Call("isIPFSInstalled"), TRUE, {})
            /\ timers' = timers \cup {IpfsInstallUrl}
            /\ Reject(IpfsMissingError)
       ELSE /\ Settle(Call("isIPFSInstalled"), TRUE, {CallOf(Proc("ipfs daemon"), <<>>)})
            /\ Await("startIPFSDaemon")
            /\ UNCHANGED timers
    /\ UNCHANGED <<started, ctx, unhandled, opened, truffleConfig, truffleWrites,
                   listening, ipfs, ipfsInstalled, wrapperDir, wrapperDisk, roles, manifest,
                   reported, binVars, toolVars>>

IpfsDaemonSettle(ok) ==
    /\ step = "StartIPFS" /\ phase = "startIPFSDaemon"
    /\ Settle(Proc("ipfs daemon"), ok, {})
    /\ ipfs' = IF ok THEN "running" ELSE ipfs
    /\ IF ok THEN Resolve(ctx) ELSE Reject(Msg(Proc("ipfs daemon")))
    /\ UNCHANGED <<started, ctx, unhandled, timers, opened, truffleConfig,
                   truffleWrites, listening, ipfsInstalled, wrapperDir, wrapperDisk, roles,
                   manifest, reported, binVars, toolVars>>

(***************************************************************************)
(* 'Deploy APM and ENS'                                                    *)
(***************************************************************************)
\* deployContract(web3, sender, artifact, args): one deployment, resolving to
\* the address of the instance.
deployContract(web3, sender, c, args) == CallOf(Deploy(c), <<web3, sender>> \o args)

BaseDeploys == {Deploy(c) : c \in apmBaseContracts}

\* 'Deploy base contracts': the six deployments are created by one map() and
\* handed to Promise.all.
DeployBaseStart ==
    /\ StartTask("DeployBase")
    /\ ctx' = [ctx EXCEPT !.contracts = [c \in ContractNames |-> Undefined]]
    /\ Launch({deployContract(ctx.web3, ctx.accounts, c, <<>>) : c \in apmBaseContracts})
    /\ Await("Promise.all")
    /\ UNCHANGED <<quiet, binVars, toolVars>>

\* One of the base deployments settles; its then-callback stores the address
\* whether or not Promise.all has rejected meanwhile.
DeployBaseSettle(c, ok) ==
    /\ c \in apmBaseContracts
    /\ Settle(Deploy(c), ok, {})
    /\ ctx' = IF ok THEN [ctx EXCEPT !.contracts[c] = Addr(c)] ELSE ctx
    /\ IF step = "DeployBase" /\ phase = "Promise.all"
       THEN IF ~ok THEN Reject(Msg(Deploy(c)))
            ELSE IF PromiseAll(BaseDeploys, done') THEN Resolve(ctx')
            ELSE Await("Promise.all")
       ELSE UNCHANGED <<step, phase, error>>
    /\ UNCHANGED <<started, quiet, binVars, toolVars>>

\* 'Deploy base DAO factory'
DeployDAOFactoryStart ==
    /\ StartTask("DeployDAOFactory")
    /\ Launch({deployContract(ctx.web3, ctx.accounts, "DAOFactory",
                   <<ctx.contracts["Kernel"], ctx.contracts["ACL"]>>)})
    /\ Await("deploy")
    /\ UNCHANGED <<ctx, quiet, binVars, toolVars>>

DeployDAOFactorySettle(ok) ==
    /\ step = "DeployDAOFactory" /\ phase = "deploy"
    /\ Settle(Deploy("DAOFactory"), ok, {})
    /\ ctx' = IF ok THEN [ctx EXCEPT !.contracts["DAOFactory"] = Addr("DAOFactory")] ELSE ctx
    /\ IF ok THEN Resolve(ctx') ELSE Reject(Msg(Deploy("DAOFactory")))
    /\ UNCHANGED <<started, quiet, binVars, toolVars>>

\* 'Deploy APM registry factory'
DeployAPMFactoryStart ==
    /\ StartTask("DeployAPMFactory")
    /\ Launch({deployContract(ctx.web3, ctx.accounts, "APMRegistryFactory",
                   <<ctx.contracts["DAOFactory"], ctx.contracts["APMRegistry"],
                     ctx.contracts["Repo"], ctx.contracts["ENSSubdomainRegistrar"],
                     ctx.contracts["ENSFactory"]>>)})
    /\ Await("deploy")
    /\ UNCHANGED <<ctx, quiet, binVars, toolVars>>

DeployAPMFactorySettle(ok) ==
    /\ step = "DeployAPMFactory" /\ phase = "deploy"
    /\ Settle(Deploy("APMRegistryFactory"), ok, {})
    /\ ctx' = IF ok THEN [ctx EXCEPT !.contracts["APMRegistryFactory"] =
                                         Addr("APMRegistryFactory")]
              ELSE ctx
    /\ IF ok THEN Resolve(ctx') ELSE Reject(Msg(Deploy("APMRegistryFactory")))
    /\ UNCHANGED <<started, quiet, binVars, toolVars>>

\* Faulty: the registry address is recorded instead of the ENS address.
writeTruffleConfigRegistry(ensAddress) ==
    /\ truffleConfig' = ctx.registryAddress
    /\ truffleWrites' = truffleWrites + 1

\* writeTruffleConfig({ ensAddress })
writeTruffleConfig(ensAddress) ==
    /\ truffleConfig' = ensAddress
    /\ truffleWrites' = truffleWrites + 1

\* 'Create APM registry': newAPM(...).send(), then registrar().call(), then
\* ens().call(), then the configuration file is written.
CreateAPMStart ==
    /\ StartTask("CreateAPM")
    /\ Launch({CallOf(Tx("newAPM"),
                      <<ctx.web3, ctx.accounts, ctx.contracts["APMRegistryFactory"]>>)})
    /\ Await("newAPM")
    /\ UNCHANGED <<ctx, quiet, binVars, toolVars>>

CreateAPMNewAPM(ok) ==
    /\ step = "CreateAPM" /\ phase = "newAPM"
    /\ ctx' = IF ok THEN [ctx EXCEPT !.registryAddress = Addr("apm")] ELSE ctx
    /\ IF ok
       THEN /\ Settle(Tx("newAPM"), TRUE,
                      {CallOf(Call("registrar"), <<ctx.web3, ctx'.registryAddress>>)})
            /\ Await("registrar")
       ELSE /\ Settle(Tx("newAPM"), FALSE, {})
            /\ Reject(Msg(Tx("newAPM")))
    /\ UNCHANGED <<started, quiet, binVars, toolVars>>

CreateAPMRegistrar(ok) ==
    /\ step = "CreateAPM" /\ phase = "registrar"
    /\ IF ok
       THEN /\ Settle(Call("registrar"), TRUE,
                      {CallOf(Call("ens"), <<ctx.web3, Addr("registrar")>>)})
            /\ Await("ens")
       ELSE /\ Settle(Call("registrar"), FALSE, {})
            /\ Reject(Msg(Call("registrar")))
    /\ UNCHANGED <<started, ctx, quiet, binVars, toolVars>>

CreateAPMEns(ok) ==
    /\ step = "CreateAPM" /\ phase = "ens"
    /\ Settle(Call("ens"), ok, {})
    /\ IF ok
       THEN /\ ctx' = [ctx EXCEPT !.ensAddress = Addr("ens")]
            /\ writeTruffleConfig(Addr("ens"))
            /\ Resolve(ctx')
       ELSE /\ ctx' = ctx
            /\ UNCHANGED <<truffleConfig, truffleWrites>>
            /\ Reject(Msg(Call("ens")))
    /\ UNCHANGED <<started, unhandled, timers, opened, listening, ipfs, ipfsInstalled,
                   wrapperDir, wrapperDisk, roles, manifest, reported, binVars, toolVars>>

(***************************************************************************)
(* 'Create DAO'                                                            *)
(***************************************************************************)
CreateDAOStart ==
    /\ StartTask("CreateDAO")
    /\ Launch({CallOf(Tx("newDAO"),
                      <<ctx.web3, ctx.accounts, ctx.contracts["DAOFactory"]>>)})
    /\ Await("newDAO")
    /\ UNCHANGED <<ctx, quiet, binVars, toolVars>>

CreateDAONewDAO(ok) ==
    /\ step = "CreateDAO" /\ phase = "newDAO"
    /\ ctx' = IF ok THEN [ctx EXCEPT !.daoAddress = Addr("dao")] ELSE ctx
    /\ IF ok
       THEN /\ Settle(Tx("newDAO"), TRUE,
                      {CallOf(Call("acl"), <<ctx.web3, ctx'.daoAddress>>)})
            /\ Await("acl")
       ELSE /\ Settle(Tx("newDAO"), FALSE, {})
            /\ Reject(Msg(Tx("newDAO")))
    /\ UNCHANGED <<started, quiet, binVars, toolVars>>

CreateDAOAcl(ok) ==
    /\ step = "CreateDAO" /\ phase = "acl"
    /\ Settle(Call("acl"), ok, {})
    /\ ctx' = IF ok THEN [ctx EXCEPT !.aclAddress = Addr("acl")] ELSE ctx
    /\ IF ok THEN Resolve(ctx') ELSE Reject(Msg(Call("acl")))
    /\ UNCHANGED <<started, quiet, binVars, toolVars>>

(***************************************************************************)
(* setPermissions and 'Set DAO permissions'                                *)
(***************************************************************************)
\* The task that calls setPermissions for a list of permissions.
PermTask(list) == IF list = "dao" THEN "SetDAOPermissions" ELSE "SetPermissions"

\* Faulty: the entity and the app are handed over in the wrong order.
setPermissionsSwapped(web3, sender, aclAddress, list, who, where, n) ==
    {CallOf(Perm(list, i), <<web3, sender, aclAddress, where, who>>) : i \in 1..n}

\* setPermissions(web3, sender, aclAddress, permissions): one createPermission
\* transaction per permission [who, where, what], all handed to Promise.all;
\* n is permissions.length and every permission has the same who and where.
setPermissions(web3, sender, aclAddress, list, who, where, n) ==
    {CallOf(Perm(list, i), <<web3, sender, aclAddress, who, where>>) : i \in 1..n}

PermOps(list, n) == {Perm(list, i) : i \in 1..n}

SetDAOPermissionsStart ==
    /\ StartTask("SetDAOPermissions")
    /\ Launch(setPermissions(ctx.web3, ctx.accounts, ctx.aclAddress, "dao",
                             ANY_ENTITY, ctx.daoAddress, 1))
    /\ Await("Promise.all")
    /\ UNCHANGED <<ctx, quiet, binVars, toolVars>>

\* One createPermission transaction of a list of n settles.
PermSettle(list, i, n, ok) ==
    /\ Settle(Perm(list, i), ok, {})
    /\ IF step = PermTask(list) /\ phase = "Promise.all"
       THEN IF ~ok THEN Reject(Msg(Perm(list, i)))
            ELSE IF PromiseAll(PermOps(list, n), done') THEN Resolve(ctx)
            ELSE Await("Promise.all")
       ELSE UNCHANGED <<step, phase, error>>
    /\ UNCHANGED <<started, ctx, quiet, binVars, toolVars>>

SetDAOPermissionsSettle(ok) == PermSettle("dao", 1, 1, ok)

(***************************************************************************)
(* 'Deploy app code' and 'Publish app'                                     *)
(***************************************************************************)
DeployAppCodeStart ==
    /\ StartTask("DeployAppCode")
    /\ Launch({deployContract(ctx.web3, ctx.accounts, "AppCode", <<>>)})
    /\ Await("deploy")
    /\ UNCHANGED <<ctx, quiet, binVars, toolVars>>

DeployAppCodeSettle(ok) ==
    /\ step = "DeployAppCode" /\ phase = "deploy"
    /\ Settle(Deploy("AppCode"), ok, {})
    /\ ctx' = IF ok THEN [ctx EXCEPT !.contracts["AppCode"] = Addr("AppCode")] ELSE ctx
    /\ IF ok THEN Resolve(ctx') ELSE Reject(Msg(Deploy("AppCode")))
    /\ UNCHANGED <<started, quiet, binVars, toolVars>>

\* ctx.apm = APM(ctx.web3, { ipfs, ensRegistryAddress: ctx.ensAddress })
Apm == <<"apm", "ipfs http://localhost:5001">>

PublishStart ==
    /\ StartTask("Publish")
    /\ ctx' = [ctx EXCEPT !.apm = Apm]
    /\ Launch({CallOf(Call("publish.task"),
                      <<ctx.web3, ctx.ensAddress, ctx.contracts["AppCode"]>>)})
    /\ Await("publish")
    /\ UNCHANGED <<quiet, binVars, toolVars>>

PublishSettle(ok) ==
    /\ step = "Publish" /\ phase = "publish"
    /\ Settle(Call("publish.task"), ok, {})
    /\ IF ok THEN Resolve(ctx) ELSE Reject(Msg(Call("publish.task")))
    /\ UNCHANGED <<started, ctx, quiet, binVars, toolVars>>

(***************************************************************************)
(* 'Install app'                                                           *)
(***************************************************************************)
\* 'Deploy proxy'
DeployProxyStart ==
    /\ StartTask("DeployProxy")
    /\ Launch({CallOf(Tx("newAppInstance"),
                      <<ctx.web3, ctx.accounts, ctx.daoAddress, ctx.contracts["AppCode"]>>)})
    /\ Await("newAppInstance")
    /\ UNCHANGED <<ctx, quiet, binVars, toolVars>>

DeployProxySettle(ok) ==
    /\ step = "DeployProxy" /\ phase = "newAppInstance"
    /\ Settle(Tx("newAppInstance"), ok, {})
    /\ ctx' = IF ok THEN [ctx EXCEPT !.appAddress = Addr("proxy")] ELSE ctx
    /\ IF ok THEN Resolve(ctx') ELSE Reject(Msg(Tx("newAppInstance")))
    /\ UNCHANGED <<started, quiet, binVars, toolVars>>

\* 'Set permissions': throws when module.roles is missing or empty, otherwise
\* one permission [ANY_ENTITY, ctx.appAddress, role.id] per role.
SetPermissionsStart ==
    /\ StartTask("SetPermissions")
    /\ IF roles = 0
       THEN /\ Reject(NoPermissionsError)
            /\ UNCHANGED <<inflight, calls, done, failed>>
       ELSE /\ Launch(setPermissions(ctx.web3, ctx.accounts, ctx.aclAddress, "app",
                                     ANY_ENTITY, ctx.appAddress, roles))
            /\ Await("Promise.all")
    /\ UNCHANGED <<ctx, quiet, binVars, toolVars>>

SetPermissionsSettle(i, ok) ==
    /\ i \in 1..roles
    /\ PermSettle("app", i, roles, ok)

(***************************************************************************)
(* 'Open DAO'                                                              *)
(***************************************************************************)
\* 'Download wrapper'
DownloadWrapperStart ==
    /\ StartTask("DownloadWrapper")
    /\ IF wrapperDir
       THEN \* task.skip('Wrapper already downloaded')
            /\ ctx' = [ctx EXCEPT !.wrapperPath = WRAPPER_PATH, !.wrapperAvailable = TRUE]
            /\ Resolve(ctx')
            /\ UNCHANGED <<inflight, calls, done, failed, wrapperDir>>
       ELSE \* fs.ensureDirSync(WRAPPER_PATH), then clone(...)
            /\ ctx' = [ctx EXCEPT !.wrapperPath = WRAPPER_PATH]
            /\ wrapperDir' = TRUE
            /\ Launch({CallOf(Proc("git clone"), <<WRAPPER_PATH>>)})
            /\ Await("clone")
    /\ UNCHANGED <<unhandled, timers, opened, truffleConfig, truffleWrites, listening,
                   ipfs, ipfsInstalled, wrapperDisk, roles, manifest, reported,
                   binVars, toolVars>>

DownloadWrapperSettle(ok) ==
    /\ step = "DownloadWrapper" /\ phase = "clone"
    /\ Settle(Proc("git clone"), ok, {})
    /\ wrapperDisk' = IF ok THEN [wrapperDisk EXCEPT !.cloned = TRUE] ELSE wrapperDisk
    /\ IF ok THEN Resolve(ctx) ELSE Reject(Msg(Proc("git clone")))
    /\ UNCHANGED <<started, ctx, unhandled, timers, opened, truffleConfig, truffleWrites,
                   listening, ipfs, ipfsInstalled, wrapperDir, roles, manifest,
                   reported, binVars, toolVars>>

\* 'Install wrapper dependencies with npm'
NpmInstallStart ==
    /\ StartTask("NpmInstall")
    /\ Launch({CallOf(Proc("npm install"), <<ctx.wrapperPath>>)})
    /\ Await("npm install")
    /\ UNCHANGED <<ctx, quiet, binVars, toolVars>>

\* Faulty: the catch callback rethrows the error of the subprocess.
InstallFailureRethrown(op) == Msg(op)

\* .catch(() => { throw new Error('Could not install dependencies') })
InstallFailure(op) == InstallError

NpmInstallSettle(ok) ==
    /\ step = "NpmInstall" /\ phase = "npm install"
    /\ Settle(Proc("npm install"), ok, {})
    /\ wrapperDisk' = IF ok THEN [wrapperDisk EXCEPT !.installed = TRUE] ELSE wrapperDisk
    /\ IF ok THEN Resolve(ctx) ELSE Reject(InstallFailure(Proc("npm install")))
    /\ UNCHANGED <<started, ctx, unhandled, timers, opened, truffleConfig, truffleWrites,
                   listening, ipfs, ipfsInstalled, wrapperDir, roles, manifest,
                   reported, binVars, toolVars>>

\* 'Start wrapper': execa('npm', ['start'], ...) is launched and its promise is
\* not returned, so the task completes at once.
StartWrapperStart ==
    /\ StartTask("StartWrapper")
    /\ Launch({CallOf(Proc("npm start"), <<ctx.wrapperPath, ctx.ensAddress>>)})
    /\ Resolve(ctx)
    /\ UNCHANGED <<ctx, quiet, binVars, toolVars>>

\* The wrapper process ends, at any later time; on an error the catch callback
\* throws 'Could not start wrapper' inside a promise nobody holds.
StartWrapperSettle(ok) ==
    /\ Settle(Proc("npm start"), ok, {})
    /\ unhandled' = IF ok THEN unhandled ELSE unhandled \cup {StartError}
    /\ UNCHANGED <<step, phase, error, started, ctx, timers, opened, truffleConfig,
                   truffleWrites, listening, ipfs, ipfsInstalled, wrapperDir, wrapperDisk, roles,
                   manifest, reported, binVars, toolVars>>

\* 'Open wrapper': setTimeout(() => opn(...), 2500)
OpenWrapperStart ==
    /\ StartTask("OpenWrapper")
    /\ timers' = timers \cup {DaoUrl(ctx.daoAddress)}
    /\ Resolve(ctx)
    /\ UNCHANGED <<inflight, calls, done, failed, ctx, unhandled, opened, truffleConfig,
                   truffleWrites, listening, ipfs, ipfsInstalled, wrapperDir, wrapperDisk, roles,
                   manifest, reported, binVars, toolVars>>

\* A setTimeout callback runs: opn(url).
TimerFire(url) ==
    /\ url \in timers
    /\ timers' = timers \ {url}
    /\ opened' = opened \cup {url}
    /\ UNCHANGED <<step, phase, error, started, inflight, calls, done, failed, ctx,
                   unhandled, truffleConfig, truffleWrites, listening, ipfs,
                   ipfsInstalled, wrapperDir, wrapperDisk, roles, manifest, reported,
                   binVars, toolVars>>

(***************************************************************************)
(* tasks.run().then((ctx) => { reporter.info(...); ... })                  *)
(***************************************************************************)
\* Faulty: the callback is attached with finally(), so it also runs on rejection.
RunSettled == step \in {"Done", "Failed"}

\* tasks.run() has resolved: then() runs its callback only in that case
RunResolved == step = "Done"

Report ==
    /\ RunResolved
    /\ step' = "Reported"
    /\ reported' = [info |-> <<ctx.registryAddress, ctx.ensAddress, ctx.daoAddress,
                               ctx.accounts>>,
                    warning |-> IF manifest = "missing" THEN "no manifest.json"
                                ELSE IF manifest = "nostart" THEN "no start_url defined"
                                ELSE "none"]
    /\ UNCHANGED <<phase, error, started, inflight, calls, done, failed, ctx,
                   unhandled, timers, opened, truffleConfig, truffleWrites, listening,
                   ipfs, ipfsInstalled, wrapperDir, wrapperDisk, roles, manifest,
                   binVars, toolVars>>

\* The command is executed again once an execution has ended: the process
\* starts afresh, the disk (wrapper directory, truffle.js), the IPFS daemon and
\* the project are as the earlier execution left them.
Rerun ==
    /\ step \in {"Failed", "Reported"}
    /\ step' = TaskOrder[1]
    /\ phase' = "ready"
    /\ started' = <<>>
    /\ inflight' = {}
    /\ done' = {}
    /\ failed' = {}
    /\ ctx' = EmptyCtx
    /\ calls' = {}
    /\ error' = NoError
    /\ unhandled' = {}
    /\ timers' = {}
    /\ opened' = {}
    /\ truffleWrites' = 0
    /\ listening' = "none"
    /\ reported' = NoReport
    /\ UNCHANGED <<truffleConfig, ipfs, ipfsInstalled, wrapperDir, wrapperDisk, roles,
                   manifest, binVars, toolVars>>

RunNext ==
    \/ CompileStart
    \/ \E ok \in BOOLEAN : CompileSettle(ok)
    \/ ConnectStart
    \/ \E r \in {"true", "false", "throw"} : ConnectListening(r)
    \/ \E ok \in BOOLEAN : ConnectDevchain(ok)
    \/ \E ok \in BOOLEAN : ConnectAccounts(ok)
    \/ IpfsSkipStart
    \/ \E ok \in BOOLEAN : IpfsSkipSettle(ok)
    \/ \E ok \in BOOLEAN : IpfsInstalledSettle(ok)
    \/ \E ok \in BOOLEAN : IpfsDaemonSettle(ok)
    \/ DeployBaseStart
    \/ \E c \in apmBaseContracts, ok \in BOOLEAN : DeployBaseSettle(c, ok)
    \/ DeployDAOFactoryStart
    \/ \E ok \in BOOLEAN : DeployDAOFactorySettle(ok)
    \/ DeployAPMFactoryStart
    \/ \E ok \in BOOLEAN : DeployAPMFactorySettle(ok)
    \/ CreateAPMStart
    \/ \E ok \in BOOLEAN : CreateAPMNewAPM(ok)
    \/ \E ok \in BOOLEAN : CreateAPMRegistrar(ok)
    \/ \E ok \in BOOLEAN : CreateAPMEns(ok)
    \/ CreateDAOStart
    \/ \E ok \in BOOLEAN : CreateDAONewDAO(ok)
    \/ \E ok \in BOOLEAN : CreateDAOAcl(ok)
    \/ SetDAOPermissionsStart
    \/ \E ok \in BOOLEAN : SetDAOPermissionsSettle(ok)
    \/ DeployAppCodeStart
    \/ \E ok \in BOOLEAN : DeployAppCodeSettle(ok)
    \/ PublishStart
    \/ \E ok \in BOOLEAN : PublishSettle(ok)
    \/ DeployProxyStart
    \/ \E ok \in BOOLEAN : DeployProxySettle(ok)
    \/ SetPermissionsStart
    \/ \E i \in 1..MaxRoles, ok \in BOOLEAN : SetPermissionsSettle(i, ok)
    \/ DownloadWrapperStart
    \/ \E ok \in BOOLEAN : DownloadWrapperSettle(ok)
    \/ NpmInstallStart
    \/ \E ok \in BOOLEAN : NpmInstallSettle(ok)
    \/ StartWrapperStart
    \/ \E ok \in BOOLEAN : StartWrapperSettle(ok)
    \/ OpenWrapperStart
    \/ \E url \in timers : TimerFire(url)
    \/ Report

(***************************************************************************)
(* getLocalBinary(binaryName, packageRoot): the upward walk over the       *)
(* node_modules/.bin directories, from the start directory to the root.    *)
(* A path is the sequence of its segments; the root is the empty path.     *)
(***************************************************************************)
NoPath == <<"(not found)">>
Root == <<>>
Segments == {"parent", "node_modules", "@scope", "project_root"}
\* A segment that begins with the scope marker "@".
IsScoped(seg) == seg = "@scope"

RECURSIVE PathsUpTo(_)
PathsUpTo(n) ==
    IF n = 0 THEN {Root}
    ELSE PathsUpTo(n - 1) \cup {Append(p, seg) : p \in PathsUpTo(n - 1), seg \in Segments}

\* path.dirname
Dirname(dir) == SubSeq(dir, 1, Len(dir) - 1)
\* path.basename
Basename(dir) == dir[Len(dir)]

\* Faulty: the start directory is treated like an ancestor.
CandidateAnyDir(dir, start, name) ==
    IF dir # Root /\ Basename(dir) = "node_modules"
    THEN dir \o <<".bin", name>>
    ELSE dir \o <<"node_modules", ".bin", name>>

\* The candidate checked at directory dir: <dir>/node_modules/.bin/<name>; an
\* ancestor that is itself a node_modules directory holds the .bin directory
\* directly (<dir>/.bin/<name>), as util.test.js expects of
\* parent/node_modules/project_root.
Candidate(dir, start, name) ==
    IF dir # start /\ dir # Root /\ Basename(dir) = "node_modules"
    THEN dir \o <<".bin", name>>
    ELSE dir \o <<"node_modules", ".bin", name>>

RECURSIVE Ancestors(_)
\* dir and every directory above it, up to the root.
Ancestors(dir) == IF dir = Root THEN {Root} ELSE {dir} \cup Ancestors(Dirname(dir))

BinInit ==
    /\ binName = "truff"
    /\ binStart \in PathsUpTo(MaxDepth)
    /\ binFs \in SUBSET {Candidate(d, binStart, binName) : d \in Ancestors(binStart)}
    /\ binDir = binStart
    /\ binPc = "walk"
    /\ binResult = NoPath
    /\ binChecked = <<>>

\* Faulty walks: no parent is tried; only the parent of the start directory is
\* tried; the walk does not stop at the root.
WalkUpNever(dir) == [pc |-> "notfound", dir |-> dir]

WalkUpOnce(dir) == IF dir = binStart /\ dir # Root
                   THEN [pc |-> "walk", dir |-> Dirname(dir)]
                   ELSE [pc |-> "notfound", dir |-> dir]

WalkUpForever(dir) == [pc |-> "walk", dir |-> IF dir = Root THEN Root ELSE Dirname(dir)]

\* Where the walk goes when the candidate at dir is absent: the parent
\* directory, or nowhere ("notfound") at the filesystem root.
WalkUp(dir) == IF dir = Root THEN [pc |-> "notfound", dir |-> dir]
               ELSE [pc |-> "walk", dir |-> Dirname(dir)]

\* One iteration of the walk: existsSync of the candidate at binDir.
getLocalBinaryStep ==
    /\ binPc = "walk"
    /\ LET cand == Candidate(binDir, binStart, binName) IN
       /\ binChecked' = Append(binChecked, cand)
       /\ IF cand \in binFs
          THEN /\ binPc' = "found"
               /\ binResult' = cand
               /\ binDir' = binDir
          ELSE /\ binPc' = WalkUp(binDir).pc
               /\ binDir' = WalkUp(binDir).dir
               /\ binResult' = binResult
    /\ UNCHANGED <<binName, binStart, binFs, runVars, toolVars>>

BinNext == getLocalBinaryStep

\* No call of getLocalBinary is in progress.
BinIdle ==
    /\ binName = "truff"
    /\ binStart = Root
    /\ binFs = {}
    /\ binDir = Root
    /\ binPc = "idle"
    /\ binResult = NoPath
    /\ binChecked = <<>>

\* The run command is not being executed.
RunIdle ==
    /\ RunInit
    /\ ipfs = "stopped" /\ ipfsInstalled /\ ~wrapperDir /\ roles = 0
    /\ manifest = "missing"

(***************************************************************************)
(* fetchClient(ctx, task, clientVersion)  (src/unnamed/part_000)           *)
(***************************************************************************)
MaxCalls == 4

Versions == {"0.4.1", "0.5.0", "0.6.0"}

\* CLIENT_PATH = `${os.homedir()}/.aragon/client-${clientVersion}`
ClientPath(v) == <<"~/.aragon/client-", v>>

\* existsSync(path.resolve(CLIENT_PATH)): the directory exists, whatever it holds
ClientExists(disk, v) == disk[v] # "absent"

ClientInit ==
    /\ fcPc = "idle"
    /\ fcVersion = "none"
    /\ fcCtx = [clientFetch |-> FALSE, clientAvailable |-> FALSE, clientPath |-> Undefined]
    /\ fcDisk = [v \in Versions |-> "absent"]
    /\ fcCopies = [v \in Versions |-> 0]
    /\ fcCalls = 0
    /\ fcOutcome = "none"

\* One call, up to its return (skip) or to the await of copy(); calls follow
\* one another.
fetchClient(v) ==
    /\ fcPc = "idle"
    /\ fcCalls < MaxCalls
    /\ fcCalls' = fcCalls + 1
    /\ fcVersion' = v
    /\ fcCtx' = [clientFetch |-> TRUE, clientAvailable |-> TRUE, clientPath |-> ClientPath(v)]
    /\ IF ClientExists(fcDisk, v)
       THEN \* task.skip('Client already fetched')
            /\ fcOutcome' = "skipped"
            /\ UNCHANGED <<fcPc, fcDisk>>
       ELSE \* ensureDirSync(BUILD_PATH) creates CLIENT_PATH and CLIENT_PATH/build
            /\ fcDisk' = [fcDisk EXCEPT ![v] = "empty build"]
            /\ fcPc' = "copy"
            /\ fcOutcome' = "none"
    /\ UNCHANGED <<fcCopies, runVars, binVars, web3Vars, appsVars>>

\* await copy(files, BUILD_PATH) settles; on an error the call rejects and the
\* directory stays as it is.
fetchClientCopy(ok) ==
    /\ fcPc = "copy"
    /\ fcPc' = "idle"
    /\ IF ok
       THEN /\ fcDisk' = [fcDisk EXCEPT ![fcVersion] = "built"]
            /\ fcCopies' = [fcCopies EXCEPT ![fcVersion] = @ + 1]
            /\ fcOutcome' = "copied"
       ELSE /\ fcOutcome' = "failed"
            /\ UNCHANGED <<fcDisk, fcCopies>>
    /\ UNCHANGED <<fcVersion, fcCtx, fcCalls, runVars, binVars, web3Vars, appsVars>>

ClientNext ==
    \/ \E v \in Versions : fetchClient(v)
    \/ \E ok \in BOOLEAN : fetchClientCopy(ok)

(***************************************************************************)
(* ensureWeb3(network)  (src/unnamed/part_001)                             *)
(***************************************************************************)
Networks == {"http://localhost:8545", "ws://rinkeby.example:8546"}

Web3For(n) == <<"web3", n>>

PleaseRunError == <<"Please execute aragon run before running this">> \o NoOp

\* `ctx` is not declared in the module: it resolves only if the program that
\* loads the module defines a global of that name, holding a web3 client.
Web3Init ==
    /\ w3Pc = "called"
    /\ w3Network \in Networks
    /\ w3Status \in [Networks -> {"listening", "not listening", "unreachable"}]
    /\ w3Ctx \in {"unbound"} \cup Networks
    /\ w3Result = Undefined
    /\ w3Error = NoError

Web3Idle ==
    /\ w3Pc = "idle"
    /\ w3Network = "http://localhost:8545"
    /\ w3Status = [n \in Networks |-> "unreachable"]
    /\ w3Ctx = "unbound"
    /\ w3Result = Undefined
    /\ w3Error = NoError

\* web3 = new Web3(network), then the evaluation of ctx.web3.eth.net.isListening():
\* an unbound `ctx` is a ReferenceError inside the try block.
ensureWeb3 ==
    /\ w3Pc = "called"
    /\ IF w3Ctx = "unbound"
       THEN w3Pc' = "threw" /\ w3Error' = PleaseRunError
       ELSE w3Pc' = "isListening" /\ w3Error' = w3Error
    /\ UNCHANGED <<w3Network, w3Status, w3Ctx, w3Result, runVars, binVars, clientVars,
                   appsVars>>

\* The isListening() of ctx.web3 settles: `if (connected) return web3`, and the
\* function ends without a return statement otherwise.
ensureWeb3Listening ==
    /\ w3Pc = "isListening"
    /\ CASE w3Status[w3Ctx] = "listening" ->
               w3Pc' = "returned" /\ w3Result' = Web3For(w3Network) /\ w3Error' = w3Error
         [] w3Status[w3Ctx] = "not listening" ->
               w3Pc' = "returned" /\ w3Result' = Undefined /\ w3Error' = w3Error
         [] w3Status[w3Ctx] = "unreachable" ->
               w3Pc' = "threw" /\ w3Result' = w3Result /\ w3Error' = PleaseRunError
    /\ UNCHANGED <<w3Network, w3Status, w3Ctx, runVars, binVars, clientVars, appsVars>>

Web3Next == ensureWeb3 \/ ensureWeb3Listening

(***************************************************************************)
(* The `apps <dao>` command  (src/unnamed/part_002)                        *)
(***************************************************************************)
MaxApps == 2

VotingAppId == "0x9fa3927f639745e587912d4b0fea7ef9013bf93fb907d29faeab57417ba6e1d4"
AppIdSet == {VotingAppId, "0x0123456789abcdef"}

NoContent == <<"", "">>
IpfsContent == <<"ipfs", "QmV5WNhsKTRf3sYYC8e8pyjx5Mm2mNQKFBDMzpeUuJbat8">>

App(id, c) == [appId |-> id, proxyAddress |-> <<"proxy of", id>>, content |-> c]

AppSet == {App(id, c) : id \in AppIdSet, c \in {NoContent, IpfsContent}}

AppLists == UNION {[1..n -> AppSet] : n \in 0..MaxApps}

\* appIds[appId] of ./utils/knownApps ("" when the id is not a known one)
appIds(appId) == IF appId = VotingAppId THEN "Voting" ELSE ""

\* appIds[appId] ? appIds[appId] : appId.slice(0,10) + '...'
printAppName(appId) ==
    IF appIds(appId) # "" THEN <<"name", appIds(appId)>> ELSE <<"first 10 characters of", appId>>

\* '(No UI available)' or `${content.provider}:${content.location}`.slice(0,25) + '...'
printContent(content) ==
    IF content = NoContent THEN <<"(No UI available)", "", "">>
    ELSE <<"first 25 characters of provider:location", content[1], content[2]>>

\* ctx.apps.map(({ appId, proxyAddress, codeAddress, content }) => [...])
appsContent(apps) ==
    [i \in 1..Len(apps) |->
        <<printAppName(apps[i].appId), apps[i].proxyAddress, printContent(apps[i].content)>>]

NoMessage == <<"", "", "">>
SuccessMessage(addr) == <<"Successfully fetched DAO apps for">> \o addr
InspectError == <<"Error inspecting DAO apps", "", "">>
NoTable == [printed |-> FALSE, rows |-> <<>>]

\* `apm` is not declared in the module and is not a parameter of the handler: it
\* resolves only if the program that loads the module defines a global of that
\* name.  The client library (./utils/aragonjs-wrapper) is the environment.
AppsInit ==
    /\ apPc = "called"
    /\ apApm \in BOOLEAN
    /\ apReachable \in BOOLEAN
    /\ apFetched \in (IF apReachable THEN AppLists ELSE {<<>>})
    /\ apPending = {}
    /\ apCtx = [apps |-> <<>>, daoAddress |-> Undefined]
    /\ apSet = {}
    /\ apMessage = NoMessage
    /\ apTable = NoTable
    /\ apExit = "none"

AppsIdle ==
    /\ apPc = "idle"
    /\ apApm = FALSE
    /\ apReachable = FALSE
    /\ apFetched = <<>>
    /\ apPending = {}
    /\ apCtx = [apps |-> <<>>, daoAddress |-> Undefined]
    /\ apSet = {}
    /\ apMessage = NoMessage
    /\ apTable = NoTable
    /\ apExit = "none"

\* The handler up to the call of initAragonJS inside the promise executor of
\* 'Inspecting DAO'.  The evaluation of apm['ens-registry'] with `apm` unbound
\* is a ReferenceError in the executor: the promise, the task and run() reject.
\* For a reachable DAO the library will deliver the DAO address and the apps;
\* otherwise it reports an error through onError or rejects.
AppsStart ==
    /\ apPc = "called"
    /\ IF ~apApm
       THEN apPc' = "rejected" /\ apPending' = apPending
       ELSE /\ apPc' = "inspecting"
            /\ IF apReachable
               THEN apPending' = {"onDaoAddress", "onApps"}
               ELSE apPending' \in {{"onError"}, {"rejection"}}
    /\ UNCHANGED <<apApm, apReachable, apFetched, apCtx, apSet, apMessage, apTable, apExit,
                   runVars, binVars, clientVars, web3Vars>>

\* onDaoAddress: addr => ctx.daoAddress = addr
onDaoAddress ==
    /\ apExit = "none" /\ "onDaoAddress" \in apPending
    /\ apPending' = apPending \ {"onDaoAddress"}
    /\ apCtx' = [apCtx EXCEPT !.daoAddress = Addr("dao")]
    /\ apSet' = apSet \cup {"daoAddress"}
    /\ UNCHANGED <<apPc, apApm, apReachable, apFetched, apMessage, apTable, apExit,
                   runVars, binVars, clientVars, web3Vars>>

\* onApps: apps => { ctx.apps = apps; resolve() }
onApps ==
    /\ apExit = "none" /\ "onApps" \in apPending
    /\ apPending' = apPending \ {"onApps"}
    /\ apCtx' = [apCtx EXCEPT !.apps = apFetched]
    /\ apSet' = apSet \cup {"apps"}
    /\ apPc' = IF apPc = "inspecting" THEN "resolved" ELSE apPc
    /\ UNCHANGED <<apApm, apReachable, apFetched, apMessage, apTable, apExit,
                   runVars, binVars, clientVars, web3Vars>>

\* onError: err => reject(err)
onError ==
    /\ apExit = "none" /\ "onError" \in apPending
    /\ apPending' = apPending \ {"onError"}
    /\ apPc' = IF apPc = "inspecting" THEN "rejected" ELSE apPc
    /\ UNCHANGED <<apApm, apReachable, apFetched, apCtx, apSet, apMessage, apTable, apExit,
                   runVars, binVars, clientVars, web3Vars>>

\* initAragonJS(...).catch(err => { reporter.error(...); process.exit(1) })
AppsInitRejected ==
    /\ apExit = "none" /\ "rejection" \in apPending
    /\ apPending' = apPending \ {"rejection"}
    /\ apMessage' = InspectError
    /\ apExit' = "1"
    /\ apPc' = "exited"
    /\ UNCHANGED <<apApm, apReachable, apFetched, apCtx, apSet, apTable,
                   runVars, binVars, clientVars, web3Vars>>

\* tasks.run().then((ctx) => { reporter.success(...); ...; console.log(table);
\* process.exit() })
AppsPrint ==
    /\ apExit = "none" /\ apPc = "resolved"
    /\ apMessage' = SuccessMessage(apCtx.daoAddress)
    /\ apTable' = [printed |-> TRUE, rows |-> appsContent(apCtx.apps)]
    /\ apExit' = "0"
    /\ apPc' = "exited"
    /\ UNCHANGED <<apApm, apReachable, apFetched, apPending, apCtx, apSet,
                   runVars, binVars, clientVars, web3Vars>>

AppsNext ==
    \/ AppsStart
    \/ onDaoAddress
    \/ onApps
    \/ onError
    \/ AppsInitRejected
    \/ AppsPrint

\* None of the helpers is in use.
ToolsIdle == ClientInit /\ Web3Idle /\ AppsIdle

(***************************************************************************)
(* Specifications: Spec is one execution of `aragon run`; SpecBin is one   *)
(* call of getLocalBinary, which runs to completion once called.  Each     *)
(* specification leaves the parts it is not about idle.                    *)
(***************************************************************************)
Init == RunInit /\ BinIdle /\ ToolsIdle
Next == RunNext
Spec == Init /\ [][Next]_vars

InitBin == RunIdle /\ BinInit /\ ToolsIdle
SpecBin == InitBin /\ [][BinNext]_vars /\ WF_vars(BinNext)

\* SpecRuns is a sequence of executions of `aragon run` on a machine that starts
\* without a wrapper directory and without a daemon, for a project with one role.
InitRuns ==
    /\ RunInit
    /\ ipfs = "stopped" /\ ipfsInstalled /\ ~wrapperDir /\ roles = 1 /\ manifest = "ok"
    /\ BinIdle
    /\ ToolsIdle
NextRuns == RunNext \/ Rerun
SpecRuns == InitRuns /\ [][NextRuns]_vars

\* SpecClient is a sequence of fetchClient calls, SpecWeb3 one call of ensureWeb3
\* and SpecApps one execution of the `apps` command.
InitClient == RunIdle /\ BinIdle /\ ClientInit /\ Web3Idle /\ AppsIdle
SpecClient == InitClient /\ [][ClientNext]_vars

InitWeb3 == RunIdle /\ BinIdle /\ ClientInit /\ Web3Init /\ AppsIdle
SpecWeb3 == InitWeb3 /\ [][Web3Next]_vars

InitApps == RunIdle /\ BinIdle /\ ClientInit /\ Web3Idle /\ AppsInit
SpecApps == InitApps /\ [][AppsNext]_vars

(***************************************************************************)
(* Properties of the run workflow (checked under Spec).                    *)
(***************************************************************************)
Tasks == {TaskOrder[i] : i \in 1..Len(TaskOrder)}
Launched == {c.op : c \in calls}
Owner(op) == (CHOOSE c \in calls : c.op = op).task
LastStarted == started[Len(started)]

\* The operation whose completion writes address v into the context.
Producer(v) ==
    CASE v[2] \in ContractNames -> Deploy(v[2])
      [] v[2] = "apm" -> Tx("newAPM")
      [] v[2] = "registrar" -> Call("registrar")
      [] v[2] = "ens" -> Call("ens")
      [] v[2] = "dao" -> Tx("newDAO")
      [] v[2] = "acl" -> Call("acl")
      [] v[2] = "proxy" -> Tx("newAppInstance")

\* C1: every context entry handed to an external call (ctx.contracts[name],
\* ctx.registryAddress, ctx.ensAddress, ctx.daoAddress, ctx.aclAddress,
\* ctx.appAddress, and ctx.web3 / ctx.accounts) is populated when it is read, and
\* an address that is read was written by an operation that has completed, for
\* every order in which the deployments of a step settle.
C1_PopulatedBeforeUse ==
    \A c \in calls : \A i \in 1..Len(c.args) :
        /\ c.args[i] # Undefined
        /\ c.args[i][1] = "address of" => Producer(c.args[i]) \in done

\* Every consumer named by the claim has read its entries: the last of them,
\* 'Set permissions' of 'Install app', has sent its transactions.
C1_Witness ==
    /\ Perm("app", 1) \in Launched
    /\ Deploy("DAOFactory") \in Launched /\ Deploy("APMRegistryFactory") \in Launched
    /\ Call("publish.task") \in Launched /\ Tx("newAppInstance") \in Launched

\* Listr begins a task (its skip function or its task function is called).
BeginsTask == started' # started

\* C2 as stated: no task begins while an operation launched by an earlier task
\* (a deployment, a transaction, a subprocess) is still in flight.
C2_AwaitsPrevious == [][BeginsTask => inflight = {}]_vars

\* C2 amended: the only operation that can be in flight when a task begins is the
\* 'npm start' subprocess of 'Start wrapper', and the only task that begins
\* meanwhile is 'Open wrapper'.
C2_AwaitsPreviousButStart ==
    [][BeginsTask => /\ inflight \subseteq {Proc("npm start")}
                     /\ inflight # {} => step = "OpenWrapper"]_vars

\* The whole list has run, each task after the one before it.
C2_Witness == step = "Done" /\ Len(started) = Len(TaskOrder)

\* The message Listr reports for a failing operation of a task.
Reported(op) == IF op = Proc("npm install") THEN InstallError ELSE Msg(op)

\* C3 as stated: once an operation of a step has failed, the run has ended in
\* failure, the failing step is the last one started, and the error carries
\* the original message of a failed operation.
C3_FailureAborts ==
    failed # {} =>
        /\ step = "Failed"
        /\ error \in {Msg(op) : op \in failed}
        /\ LastStarted \in {Owner(op) : op \in failed}

\* Failures that reach Listr: every failed operation but isListening() (caught:
\* the devchain is started instead) and 'npm start' (thrown in a promise that
\* 'Start wrapper' does not return).
Propagated == failed \ {Call("isListening"), Proc("npm start")}

\* C3 amended: a failure that reaches Listr aborts the run: the failing task is
\* the last one started and run() rejects with the message of the failed
\* operation, which is the original one except for 'npm install' ('Could not
\* install dependencies'); a task that throws by itself (IPFS not installed, no
\* roles) aborts the run with its own message; a run that completes has seen no
\* such failure.
C3_PropagatedFailureAborts ==
    /\ Propagated # {} =>
          /\ step = "Failed"
          /\ error \in {Reported(op) : op \in Propagated}
          /\ LastStarted \in {Owner(op) : op \in Propagated}
    /\ (~ipfsInstalled /\ Call("isIPFSInstalled") \in done) =>
          step = "Failed" /\ error = IpfsMissingError /\ LastStarted = "StartIPFS"
    /\ (roles = 0 /\ started # <<>> /\ LastStarted = "SetPermissions") =>
          step = "Failed" /\ error = NoPermissionsError
    /\ step \in {"Done", "Reported"} => Propagated = {} /\ error = NoError

\* 'npm install' has failed and the run was aborted.
C3_Witness == step = "Failed" /\ Proc("npm install") \in failed

\* C4 as stated: when the endpoint is not reachable (isListening() throws or
\* answers false) the devchain task has completed before getAccounts() is
\* called; when it is reachable the devchain is never started.
C4_FallsBackWhenUnreachable ==
    /\ (listening \in {"false", "throw"} /\ Call("getAccounts") \in Launched)
          => Call("devchain.task") \in done
    /\ listening = "true" => Call("devchain.task") \notin Launched

\* C5 as stated: writeTruffleConfig is called at most once, and a run that
\* fails leaves the configuration file unchanged.
C5_WrittenOnlyOnSuccess ==
    /\ truffleWrites <= 1
    /\ step = "Failed" => truffleWrites = 0 /\ truffleConfig = Undefined

\* C5 amended: writeTruffleConfig is called at most once, exactly when the last
\* call of 'Create APM registry' has succeeded, with the ENS address stored in
\* the context; until then the file is unchanged, whatever happens later.
C5_WrittenOnceAfterRegistry ==
    /\ truffleWrites <= 1
    /\ truffleWrites = 1 <=> Call("ens") \in done
    /\ truffleWrites = 1 => truffleConfig = Addr("ens") /\ ctx.ensAddress = truffleConfig
    /\ truffleWrites = 0 => truffleConfig = Undefined

\* The file was written and the run failed afterwards.
C5_Witness == truffleWrites = 1 /\ step = "Failed"

\* Two operations handed to the same Promise.all.
SameGroup(o1, o2) ==
    \/ o1 \in BaseDeploys /\ o2 \in BaseDeploys
    \/ o1[1] = "createPermission" /\ o2[1] = "createPermission" /\ o1[2] = o2[2]

\* The task that launched op is waiting for it.
Awaited(op) == step = Owner(op) /\ phase # "ready"

\* C6 as stated: at most one external operation is in flight at any time, and
\* every operation in flight is awaited by the task that started it.
C6_OneAtATime ==
    /\ Cardinality(inflight) <= 1
    /\ \A op \in inflight : Awaited(op)

\* C6 amended: two operations in flight together were handed to the same
\* Promise.all (the base deployments, or the createPermission transactions of
\* one setPermissions call); an operation in flight is awaited by its task,
\* or is 'npm start', or is left over from a Promise.all that has rejected.
C6_ConcurrentOnlyInPromiseAll ==
    /\ \A o1, o2 \in inflight : o1 # o2 => SameGroup(o1, o2)
    /\ \A op \in inflight :
          \/ Awaited(op)
          \/ op = Proc("npm start")
          \/ step = "Failed" /\ \E o \in failed : SameGroup(o, op)

\* Several base deployments are in flight at once.
C6_Witness == step = "DeployBase" /\ Cardinality(inflight) = Cardinality(apmBaseContracts)

(***************************************************************************)
(* Properties of getLocalBinary (checked under SpecBin).                   *)
(***************************************************************************)
BinPath(dir) == dir \o <<"node_modules", ".bin", binName>>
LocalPath == BinPath(binStart)
LastChecked == binChecked[Len(binChecked)]

\* C7: the first candidate checked is D/node_modules/.bin/X, and when that path
\* exists it is the result and nothing else is checked.
C7_LocalBinaryFirst ==
    binChecked # <<>> =>
        /\ binChecked[1] = LocalPath
        /\ LocalPath \in binFs =>
              binPc = "found" /\ binResult = LocalPath /\ binChecked = <<LocalPath>>

\* getLocalBinary('truff', 'project_root') with the binary present locally.
C7_Witness ==
    /\ binStart = <<"project_root">> /\ binPc = "found"
    /\ binResult = <<"project_root", "node_modules", ".bin", "truff">>

\* C8: when D/node_modules/.bin/X does not exist, the second candidate is the
\* node_modules/.bin of the parent: P/node_modules/.bin/X for the parent
\* directory P of D, and <root>/node_modules/.bin/X for D =
\* <root>/node_modules/<pkg>; when it exists it is the result.
C8_ParentBinary ==
    (binPc # "walk" /\ binStart # Root /\ LocalPath \notin binFs) =>
        LET P == Dirname(binStart) IN
        /\ (P = Root \/ Basename(P) # "node_modules") /\ BinPath(P) \in binFs
              => binResult = BinPath(P) /\ binChecked = <<LocalPath, BinPath(P)>>
        /\ (P # Root /\ Basename(P) = "node_modules" /\ BinPath(Dirname(P)) \in binFs)
              => /\ binResult = BinPath(Dirname(P))
                 /\ binChecked = <<LocalPath, BinPath(Dirname(P))>>

\* getLocalBinary('truff', 'parent/node_modules/project_root'): first check
\* fails, second succeeds.
C8_Witness ==
    /\ binStart = <<"parent", "node_modules", "project_root">> /\ binPc = "found"
    /\ binResult = <<"parent", "node_modules", ".bin", "truff">>
    /\ Len(binChecked) = 2

\* C9: from D = <root>/node_modules/@scope/<pkg>, when the first two candidates
\* do not exist and <root>/node_modules/.bin/X does, that path is the result,
\* found at the third check: one directory level further up than for an
\* unscoped package.
C9_ScopedParentBinary ==
    (/\ binPc # "walk" /\ Len(binStart) >= 3
     /\ IsScoped(Basename(Dirname(binStart)))
     /\ Basename(Dirname(Dirname(binStart))) = "node_modules"
     /\ LocalPath \notin binFs
     /\ BinPath(Dirname(binStart)) \notin binFs
     /\ BinPath(Dirname(Dirname(Dirname(binStart)))) \in binFs)
    => /\ binResult = BinPath(Dirname(Dirname(Dirname(binStart))))
       /\ Len(binChecked) = 3
       /\ binChecked[3] = binResult

\* getLocalBinary('truff', 'parent/node_modules/@scope/project_root').
C9_Witness ==
    /\ binStart = <<"parent", "node_modules", "@scope", "project_root">>
    /\ binPc = "found"
    /\ binResult = <<"parent", "node_modules", ".bin", "truff">>
    /\ Len(binChecked) = 3

\* C10: the walk ends, after at most one check per directory from D up to the
\* root; a path that is returned is the last one checked and it exists; 'not
\* found' is returned at the root, when no candidate up the chain exists.
C10_WalkTerminates ==
    /\ <>(binPc # "walk")
    /\ [](Len(binChecked) <= Len(binStart) + 1)
    /\ [](binPc = "found" => binResult \in binFs /\ binResult = LastChecked)
    /\ [](binPc = "notfound" =>
             /\ binDir = Root /\ binResult = NoPath
             /\ Len(binChecked) = Len(binStart) + 1
             /\ \A d \in Ancestors(binStart) : Candidate(d, binStart, binName) \notin binFs)

\* A walk from a directory three levels deep that finds nothing.
C10_Witness == binPc = "notfound" /\ Len(binStart) = 3 /\ Len(binChecked) = 4

(***************************************************************************)
(* Properties of single steps of the run workflow (checked under Spec).    *)
(***************************************************************************)
StartedTasks == {started[i] : i \in 1..Len(started)}

\* C11: 'Start IPFS' starts a daemon only when none is running: a daemon that
\* runs without having been started by the step means the step was skipped, and
\* then neither isIPFSInstalled nor the daemon start is called; the daemon is
\* started exactly when the check found none running and IPFS is installed; and
\* once 'Deploy base contracts' (the first step of 'Deploy APM and ENS') has
\* begun, a daemon is running and a start made by the step has completed.
C11_IpfsRunningPastStep ==
    /\ (ipfs = "running" /\ Proc("ipfs daemon") \notin done)
          => {Call("isIPFSInstalled"), Proc("ipfs daemon")} \cap Launched = {}
    /\ Proc("ipfs daemon") \in Launched
          => ipfsInstalled /\ {Call("isIPFSRunning"), Call("isIPFSInstalled")} \subseteq done
    /\ (ipfsInstalled /\ Call("isIPFSInstalled") \in done)
          => Proc("ipfs daemon") \in Launched
    /\ "DeployBase" \in StartedTasks
          => /\ ipfs = "running"
             /\ Call("isIPFSRunning") \in done
             /\ Proc("ipfs daemon") \in Launched => Proc("ipfs daemon") \in done

\* The daemon was not running, was started by the step, and the run went on.
C11_Witness == "DeployBase" \in StartedTasks /\ Proc("ipfs daemon") \in done

\* C12: in 'Open DAO', when the wrapper directory exists at the check (the step
\* sets ctx.wrapperAvailable), neither the clone nor 'npm install' is executed;
\* when it does not, the clone is executed, 'npm install' starts only after the
\* clone has completed and 'npm start' is launched only after 'npm install' has
\* completed; in both cases the wrapper is started before 'Open wrapper'.
C12_CloneInstallStart ==
    /\ ctx.wrapperAvailable
          => {Proc("git clone"), Proc("npm install")} \cap Launched = {}
    /\ ("DownloadWrapper" \in StartedTasks /\ ~ctx.wrapperAvailable)
          => Proc("git clone") \in Launched
    /\ Proc("npm install") \in Launched => Proc("git clone") \in done
    /\ Proc("npm start") \in Launched
          => \/ ctx.wrapperAvailable
             \/ {Proc("git clone"), Proc("npm install")} \subseteq done
    /\ "OpenWrapper" \in StartedTasks => Proc("npm start") \in Launched

\* The directory did not exist: clone, install and start all happened.
C12_Witness ==
    /\ step = "Done"
    /\ {Proc("git clone"), Proc("npm install")} \subseteq done
    /\ Proc("npm start") \in Launched

\* C14: the summary is printed only once run() has resolved: every enabled task
\* of the list has been begun, nothing but the un-awaited 'npm start' is still
\* in flight, no task failed, and the four values printed (ctx.registryAddress,
\* ctx.ensAddress, ctx.daoAddress, ctx.accounts) are populated.
C14_SummaryAfterAllSteps ==
    reported # NoReport =>
        /\ step = "Reported"
        /\ \A s \in Tasks : TaskEnabled(s, ctx) => s \in StartedTasks
        /\ inflight \subseteq {Proc("npm start")}
        /\ error = NoError /\ Propagated = {}
        /\ reported.info = <<ctx.registryAddress, ctx.ensAddress, ctx.daoAddress,
                             ctx.accounts>>
        /\ \A i \in 1..4 : reported.info[i] # Undefined

C14_Witness == step = "Reported" /\ reported # NoReport /\ Len(started) = Len(TaskOrder)

\* C17: 'Set permissions' of 'Install app': with no roles the run fails with
\* the 'You have no permissions defined' error and no createPermission is sent
\* for the app; with roles, exactly one createPermission per role is sent, each
\* granting ANY_ENTITY on ctx.appAddress through ctx.aclAddress, and the tasks
\* after it begin only when all of them have completed.
AppPerms == {c \in calls : c.op[1] = "createPermission" /\ c.op[2] = "app"}

C17_OnePermissionPerRole ==
    /\ "SetPermissions" \notin StartedTasks => AppPerms = {}
    /\ roles = 0
          => /\ AppPerms = {}
             /\ "SetPermissions" \in StartedTasks
                   => step = "Failed" /\ error = NoPermissionsError
    /\ (roles > 0 /\ "SetPermissions" \in StartedTasks)
          => /\ {c.op : c \in AppPerms} = PermOps("app", roles)
             /\ Cardinality(AppPerms) = roles
             /\ \A c \in AppPerms :
                   c.args = <<ctx.web3, ctx.accounts, ctx.aclAddress, ANY_ENTITY,
                              ctx.appAddress>>
             /\ ctx.appAddress # Undefined
             /\ "DownloadWrapper" \in StartedTasks => PermOps("app", roles) \subseteq done

C17_Witness ==
    /\ roles >= 2
    /\ "DownloadWrapper" \in StartedTasks
    /\ PermOps("app", roles) \subseteq done

(***************************************************************************)
(* Properties of repeated executions (checked under SpecRuns).             *)
(***************************************************************************)
\* C15: whenever 'Download wrapper' is skipped (ctx.wrapperAvailable is set, which
\* disables 'npm install'), an earlier execution has completed both the clone of
\* the pinned commit and 'npm install'.
C15_SkippedOnlyWhenComplete ==
    ctx.wrapperAvailable => wrapperDisk.cloned /\ wrapperDisk.installed

(***************************************************************************)
(* Properties of fetchClient (SpecClient), ensureWeb3 (SpecWeb3) and the   *)
(* `apps` command (SpecApps).                                              *)
(***************************************************************************)
\* C16: for every client version the copy completes successfully at most once,
\* a call is skipped ('Client already fetched') only when an earlier copy into
\* <home>/.aragon/client-<version>/build completed without error, and every
\* call sets ctx.clientPath to <home>/.aragon/client-<version>.
C16_SkippedOnlyWhenCopied ==
    /\ \A v \in Versions : fcCopies[v] <= 1
    /\ fcOutcome = "skipped" => fcDisk[fcVersion] = "built" /\ fcCopies[fcVersion] = 1
    /\ fcCalls > 0 => fcCtx.clientPath = ClientPath(fcVersion)

\* C18: a call of ensureWeb3(network) that has ended returned a client of
\* `network` if that endpoint is listening and threw 'Please execute aragon run
\* before running this' if it is unreachable, and it never returned without a
\* client.
C18_ClientOrFailure ==
    w3Pc \in {"returned", "threw"} =>
        /\ w3Status[w3Network] = "listening"
              => w3Pc = "returned" /\ w3Result = Web3For(w3Network)
        /\ w3Status[w3Network] = "unreachable"
              => w3Pc = "threw" /\ w3Error = PleaseRunError
        /\ w3Pc = "returned" => w3Result # Undefined

\* C13: once the `apps` command has ended for a reachable DAO it has printed a
\* table with exactly one row per fetched app (name, proxy address, content) and
\* exited with status 0; when the client library reports an error instead, no
\* table is printed.
C13_TableForReachableDao ==
    /\ (apReachable /\ apPc \in {"rejected", "exited"})
          => /\ apExit = "0"
             /\ apTable = [printed |-> TRUE, rows |-> appsContent(apFetched)]
    /\ apTable.printed => Len(apTable.rows) = Len(apFetched)
    /\ ~apReachable => ~apTable.printed

====
